---- MODULE Spec2Model ----
(***************************************************************************)
(* Model of the match orchestrator, src/modules/match_utils/__init__.py    *)
(* (class Match).  The filesystem is one function from paths to nodes; the *)
(* orchestrator is a sequential process whose position is pc; the          *)
(* simulation engine (webots) is the only other process and acts through   *)
(* EngineExit.                                                             *)
(***************************************************************************)
EXTENDS Integers, Sequences, FiniteSets, TLC

VARIABLES
    pc,                   \* position of the orchestrator's flow of control
    caller,               \* which entry point was called: "main" or "prepare_match"
    args,                 \* the argparse.Namespace handed to main
    match_data,           \* controller_utils.MatchData built from args
    fs,                   \* the filesystem: path -> node
    ARENA_ROOT,           \* controller_utils.ARENA_ROOT (a Path)
    environ,              \* os.environ restricted to 'ARENA_ROOT': <<>> unset, <<s>> set to s
    original_arena_root,  \* local of temporary_arena_root
    tmpdir_name,          \* name given by tempfile.TemporaryDirectory ("" before)
    zone_id,              \* loop variable of prepare_match / collate_logs
    returncode,           \* the engine's exit code (-1: none yet)
    exc,                  \* the exception propagating ("None" when there is none)
    status,               \* the exit status the call ends with (-1 while running)
    output,               \* what has been printed, in order
    steps,                \* the steps taken by this call, in order
    pre                   \* values at the moment of the call

vars == <<pc, caller, args, match_data, fs, ARENA_ROOT, environ, original_arena_root,
          tmpdir_name, zone_id, returncode, exc, status, output, steps, pre>>

----------------------------------------------------------------------------
(* Bounds and input universes *)

NUM_ZONES == 2
Zones == 0 .. (NUM_ZONES - 1)
Teams == {"ABC", "DEF"}
MatchNumbers == {1, 12}
ExitCodes == {0, 7}
RecordingExts == {"mp4", "srt"}
GAME_DURATION_SECONDS == 150

None == "None"
NoArgs == [archives_dir |-> <<>>, match_num |-> 0, tla |-> <<>>, duration |-> 0]
NoMatch == [match_number |-> 0, teams |-> <<>>, duration |-> 0]

----------------------------------------------------------------------------
(* Paths and strings *)

Digit == <<"0", "1", "2", "3", "4", "5", "6", "7", "8", "9">>

RECURSIVE ToStr(_)
\* str(n) for a natural number n
ToStr(n) == IF n < 10 THEN Digit[n + 1] ELSE ToStr(n \div 10) \o Digit[(n % 10) + 1]

RECURSIVE PadLeft(_, _, _)
\* format(s, f'{fill}>{width}'): s padded on the left up to width, never cut
PadLeft(s, fill, width) == IF Len(s) >= width THEN s ELSE PadLeft(fill \o s, fill, width)

RECURSIVE PathStr(_)
\* str(path) of an absolute path given as the sequence of its components
PathStr(p) == IF p = <<>> THEN "" ELSE PathStr(SubSeq(p, 1, Len(p) - 1)) \o "/" \o p[Len(p)]

Parent(p) == SubSeq(p, 1, Len(p) - 1)
Name(p) == p[Len(p)]
Under(p, root) == Len(p) >= Len(root) /\ SubSeq(p, 1, Len(root)) = root

Range(s) == {s[i] : i \in DOMAIN s}
\* sub occurs in the string s
Contains(s, sub) ==
    \E i \in 1 .. (Len(s) - Len(sub) + 1) : SubSeq(s, i, i + Len(sub) - 1) = sub

archives_dir == <<"archives">>
default_arena_root == <<"arena">>
tmp_root == <<"tmp">>

\* tempfile.TemporaryDirectory(suffix=...): a fresh directory under the temp root
TemporaryDirectoryName(suffix) == PathStr(tmp_root) \o "/" \o "tmp" \o "x1y2z3" \o suffix

KnownPaths ==
    {default_arena_root, <<"elsewhere">>} \cup
    {tmp_root \o <<"tmp" \o "x1y2z3" \o "match-" \o ToStr(n)>> : n \in MatchNumbers}

\* pathlib.Path(s): the path whose string is s
Path(s) == CHOOSE p \in KnownPaths : PathStr(p) = s

----------------------------------------------------------------------------
(* Filesystem *)

DirNode == [kind |-> "dir", data |-> <<>>]
FileNode(d) == [kind |-> "file", data |-> d]

exists(f, p) == p \in DOMAIN f
is_dir(f, p) == p \in DOMAIN f /\ f[p].kind = "dir"
is_file(f, p) == p \in DOMAIN f /\ f[p].kind = "file"

Restrict(f, S) == [p \in S |-> f[p]]
Tree(f, root) == Restrict(f, {p \in DOMAIN f : Under(p, root)})
Children(f, d) == {p \in DOMAIN f : Len(p) = Len(d) + 1 /\ Under(p, d)}

\* a result of a filesystem operation: the exception raised (or None) and the filesystem after
Ok(f) == [exc |-> None, fs |-> f]
Raise(e, f) == [exc |-> e, fs |-> f]

\* Path.write_text
write_text(f, p, d) ==
    IF ~is_dir(f, Parent(p)) THEN Raise("FileNotFoundError", f)
    ELSE IF is_dir(f, p) THEN Raise("IsADirectoryError", f)
    ELSE Ok((p :> FileNode(d)) @@ f)

\* Path.mkdir(exist_ok=...)
mkdir(f, p, exist_ok) ==
    IF exists(f, p)
    THEN IF exist_ok /\ is_dir(f, p) THEN Ok(f) ELSE Raise("FileExistsError", f)
    ELSE IF ~is_dir(f, Parent(p)) THEN Raise("FileNotFoundError", f)
    ELSE Ok((p :> DirNode) @@ f)

\* shutil.rmtree
rmtree(f, p) ==
    IF ~exists(f, p) THEN Raise("FileNotFoundError", f)
    ELSE IF ~is_dir(f, p) THEN Raise("NotADirectoryError", f)
    ELSE Ok(Restrict(f, {q \in DOMAIN f : ~Under(q, p)}))

\* shutil.copy(src, dst): into dst when dst is a directory, onto dst otherwise
copy(f, src, dst) ==
    LET target == IF is_dir(f, dst) THEN dst \o <<Name(src)>> ELSE dst
    IN  IF ~exists(f, src) THEN Raise("FileNotFoundError", f)
        ELSE IF is_dir(f, src) THEN Raise("IsADirectoryError", f)
        ELSE IF is_dir(f, target) THEN Raise("IsADirectoryError", f)
        ELSE IF ~is_dir(f, Parent(target)) THEN Raise("FileNotFoundError", f)
        ELSE Ok((target :> FileNode(f[src].data)) @@ f)

\* shutil.copytree(src, dst)
copytree(f, src, dst) ==
    IF ~exists(f, src) THEN Raise("FileNotFoundError", f)
    ELSE IF ~is_dir(f, src) THEN Raise("NotADirectoryError", f)
    ELSE IF exists(f, dst) THEN Raise("FileExistsError", f)
    ELSE IF ~is_dir(f, Parent(dst)) THEN Raise("FileNotFoundError", f)
    ELSE LET moved == {p \in DOMAIN f : Under(p, src)}
             Rel(p) == SubSeq(p, Len(src) + 1, Len(p))
         IN  Ok([q \in {dst \o Rel(p) : p \in moved} |->
                    f[src \o SubSeq(q, Len(dst) + 1, Len(q))]] @@ f)

----------------------------------------------------------------------------
(* controller_utils: the helpers Match calls *)

REPO_ROOT == <<"repo">>

\* the layout of an arena rooted at root
ZoneRobotFileAt(root, zone) == root \o <<"zone-" \o ToStr(zone), "robot.py">>
ModeFileAt(root) == root \o <<"robot_mode.txt">>
MatchFileAt(root) == root \o <<"match.json">>
SupervisorLogAt(root) == root \o <<"supervisor-log.txt">>
RecordingStemAt(root, md) == root \o <<"recordings", "match-" \o ToStr(md.match_number)>>

\* the getters resolve against controller_utils.ARENA_ROOT at the time of the call
get_zone_robot_file_path(zone) == ZoneRobotFileAt(ARENA_ROOT, zone)
get_mode_file == ModeFileAt(ARENA_ROOT)
get_match_file == MatchFileAt(ARENA_ROOT)
get_robot_log_filename(zone) == "log-zone-" \o ToStr(zone) \o ".txt"
get_competition_supervisor_log_filepath == SupervisorLogAt(ARENA_ROOT)
get_recording_stem == RecordingStemAt(ARENA_ROOT, match_data)

MatchRecord(md) == <<"match", ToStr(md.match_number)>> \o md.teams \o <<ToStr(md.duration)>>

\* controller_utils.record_match_data
record_match_data(f, md) == write_text(f, get_match_file, MatchRecord(md))

----------------------------------------------------------------------------
(* Team archives *)

\* what each team's archive holds: relative path -> node
ArchiveEntries(tla) ==
    IF tla = "ABC"
    THEN (<<"robot.py">> :> FileNode(<<"code", tla>>))
    ELSE (<<"robot.py">> :> FileNode(<<"code", tla>>)) @@
         (<<"lib">> :> DirNode) @@
         (<<"lib", "util.py">> :> FileNode(<<"util", tla>>))

ZipData(tla) == <<"zip", tla>>
CorruptData == <<"garbage">>

\* ZipFile(path): the exception opening it raises, or None
ZipFile(f, p) ==
    IF ~exists(f, p) THEN "FileNotFoundError"
    ELSE IF is_dir(f, p) THEN "IsADirectoryError"
    ELSE IF f[p].data = <<>> \/ f[p].data[1] # "zip" THEN "BadZipFile"
    ELSE None

\* ZipFile.extractall(dest)
extractall(f, p, dest) ==
    LET entries == ArchiveEntries(f[p].data[2])
    IN  Ok([q \in {dest \o rel : rel \in DOMAIN entries} |->
               entries[SubSeq(q, Len(dest) + 1, Len(q))]] @@ f)

----------------------------------------------------------------------------
(* class Match: the pure parts *)

get_zone_path(zone) == Parent(get_zone_robot_file_path(zone))

construct_match_data(a) ==
    [match_number |-> a.match_num,
     teams |-> [i \in 1 .. Len(a.tla) |-> IF a.tla[i] # "-" THEN a.tla[i] ELSE None],
     duration |-> a.duration]

\* the team in zone z (enumerate(match_data.teams) counts from 0)
TeamIn(md, z) == md.teams[z + 1]

\* prepare_zone as it would be were the archive unpacked next to it, into archives/<tla>
prepare_zone_into_archives(f, archives, zone, tla) ==
    LET zone_path == get_zone_path(zone)
        r1 == IF exists(f, zone_path) THEN rmtree(f, zone_path) ELSE Ok(f)
    IN  IF r1.exc # None \/ tla = None THEN r1
        ELSE LET r2 == mkdir(r1.fs, archives \o <<tla>>, TRUE)
                 zip == archives \o <<tla \o ".zip">>
             IN  IF r2.exc # None THEN r2
                 ELSE IF ZipFile(r2.fs, zip) # None THEN Raise(ZipFile(r2.fs, zip), r2.fs)
                 ELSE extractall(r2.fs, zip, archives \o <<tla>>)

\* prepare_zone as it would be were the empty zone skipped before the stale directory is
\* looked for
prepare_zone_skip_before_clear(f, archives, zone, tla) ==
    LET zone_path == get_zone_path(zone)
    IN  IF tla = None THEN Ok(f)
        ELSE LET r1 == IF exists(f, zone_path) THEN rmtree(f, zone_path) ELSE Ok(f)
                 r2 == mkdir(r1.fs, zone_path, FALSE)
                 zip == archives \o <<tla \o ".zip">>
             IN  IF r1.exc # None THEN r1
                 ELSE IF r2.exc # None THEN r2
                 ELSE IF ZipFile(r2.fs, zip) # None THEN Raise(ZipFile(r2.fs, zip), r2.fs)
                 ELSE extractall(r2.fs, zip, zone_path)

\* prepare_zone as it would be were an existing zone directory kept and unpacked over
prepare_zone_keep_existing(f, archives, zone, tla) ==
    LET zone_path == get_zone_path(zone)
        r1 == IF exists(f, zone_path) /\ tla = None THEN rmtree(f, zone_path) ELSE Ok(f)
    IN  IF r1.exc # None \/ tla = None THEN r1
        ELSE LET r2 == mkdir(r1.fs, zone_path, TRUE)
                 zip == archives \o <<tla \o ".zip">>
             IN  IF r2.exc # None THEN r2
                 ELSE IF ZipFile(r2.fs, zip) # None THEN Raise(ZipFile(r2.fs, zip), r2.fs)
                 ELSE extractall(r2.fs, zip, zone_path)

\* prepare_zone as it would be were a zone whose archive cannot be opened left empty
prepare_zone_ignore_bad_archive(f, archives, zone, tla) ==
    LET zone_path == get_zone_path(zone)
        r1 == IF exists(f, zone_path) THEN rmtree(f, zone_path) ELSE Ok(f)
    IN  IF r1.exc # None \/ tla = None THEN r1
        ELSE LET r2 == mkdir(r1.fs, zone_path, FALSE)
                 zip == archives \o <<tla \o ".zip">>
             IN  IF r2.exc # None THEN r2
                 ELSE IF ZipFile(r2.fs, zip) # None THEN r2
                 ELSE extractall(r2.fs, zip, zone_path)

\* the body of prepare_match's loop for one zone
prepare_zone(f, archives, zone, tla) ==
    LET zone_path == get_zone_path(zone)
        r1 == IF exists(f, zone_path) THEN rmtree(f, zone_path) ELSE Ok(f)
    IN  IF r1.exc # None \/ tla = None THEN r1
        ELSE LET r2 == mkdir(r1.fs, zone_path, FALSE)
                 zip == archives \o <<tla \o ".zip">>
             IN  IF r2.exc # None THEN r2
                 ELSE IF ZipFile(r2.fs, zip) # None THEN Raise(ZipFile(r2.fs, zip), r2.fs)
                 ELSE extractall(r2.fs, zip, zone_path)

\* collate_zone as it would be were the team directory created without exist_ok
collate_zone_no_exist_ok(f, archives, zone, tla) ==
    IF tla = None THEN Ok(f)
    ELSE LET log_path == get_zone_path(zone) \o <<get_robot_log_filename(zone)>>
             team_dir == archives \o <<tla>>
             r1 == mkdir(f, team_dir, FALSE)
         IN  IF r1.exc # None THEN r1 ELSE copy(r1.fs, log_path, team_dir)

\* the body of collate_logs's loop for one zone
collate_zone(f, archives, zone, tla) ==
    IF tla = None THEN Ok(f)
    ELSE LET log_path == get_zone_path(zone) \o <<get_robot_log_filename(zone)>>
             team_dir == archives \o <<tla>>
             r1 == mkdir(f, team_dir, TRUE)
         IN  IF r1.exc # None THEN r1 ELSE copy(r1.fs, log_path, team_dir)

MatchFileName(md) == PadLeft(ToStr(md.match_number), "0", 3) \o ".yaml"

\* archive_match_file as it would be were matches/ created without exist_ok
archive_match_file_no_exist_ok(f, archives, md) ==
    LET matches_dir == archives \o <<"matches">>
        r1 == mkdir(f, matches_dir, FALSE)
    IN  IF r1.exc # None THEN r1
        ELSE copy(r1.fs, get_match_file, matches_dir \o <<MatchFileName(md)>>)

archive_match_file(f, archives, md) ==
    LET matches_dir == archives \o <<"matches">>
        r1 == mkdir(f, matches_dir, TRUE)
    IN  IF r1.exc # None THEN r1
        ELSE copy(r1.fs, get_match_file, matches_dir \o <<MatchFileName(md)>>)

StartsWith(s, prefix) == Len(s) >= Len(prefix) /\ SubSeq(s, 1, Len(prefix)) = prefix

\* Path.glob(pattern + '.*') in directory d: the entries named pattern.<anything>
glob(f, d, stem) == {p \in Children(f, d) : StartsWith(Name(p), stem \o ".")}

RECURSIVE copy_all(_, _, _)
\* shutil.copy of every path of todo into dst, stopping at the first error
copy_all(f, todo, dst) ==
    IF todo = {} THEN Ok(f)
    ELSE LET p == CHOOSE q \in todo : TRUE
             r == copy(f, p, dst)
         IN  IF r.exc # None THEN r ELSE copy_all(r.fs, todo \ {p}, dst)

\* archive_match_recordings as it would be without the except FileExistsError clause
archive_match_recordings_textures_once(f, archives) ==
    LET recordings_dir == archives \o <<"recordings">>
        recording_stem == get_recording_stem
        r1 == mkdir(f, recordings_dir, TRUE)
    IN  IF r1.exc # None THEN r1
        ELSE LET r2 == copy_all(r1.fs, glob(r1.fs, Parent(recording_stem), Name(recording_stem)),
                                recordings_dir)
             IN  IF r2.exc # None THEN r2
                 ELSE copytree(r2.fs, Parent(recording_stem) \o <<"textures">>,
                               recordings_dir \o <<"textures">>)

archive_match_recordings(f, archives) ==
    LET recordings_dir == archives \o <<"recordings">>
        recording_stem == get_recording_stem
        r1 == mkdir(f, recordings_dir, TRUE)
    IN  IF r1.exc # None THEN r1
        ELSE LET r2 == copy_all(r1.fs, glob(r1.fs, Parent(recording_stem), Name(recording_stem)),
                                recordings_dir)
             IN  IF r2.exc # None THEN r2
                 ELSE LET r3 == copytree(r2.fs, Parent(recording_stem) \o <<"textures">>,
                                         recordings_dir \o <<"textures">>)
                      IN  IF r3.exc = "FileExistsError" THEN Ok(r3.fs) ELSE r3

\* print_error: what print() receives
print_error(message, strong) ==
    [BOLD |-> IF strong THEN "ESC[1m" ELSE "", FAIL |-> "ESC[91m", message |-> message,
     ENDC |-> "ESC[0m"]

\* print_fatal as it would be had strong been left out
print_fatal_not_strong(message) == print_error(message, FALSE)

print_fatal(message) == print_error(message, TRUE)

\* a plain print()
print(message) == [BOLD |-> "", FAIL |-> "", message |-> message, ENDC |-> ""]

----------------------------------------------------------------------------
(* Exceptions and where they go *)

NoExc == [type |-> None, code |-> 0]
\* an exception nobody catches ends the interpreter with status 1
Exception(e) == [type |-> e, code |-> 1]
\* exit as it would be were the code dropped
exit_success(code) == [type |-> "SystemExit", code |-> 0]

\* the builtin exit(code) raises SystemExit(code)
exit(code) == [type |-> "SystemExit", code |-> code]

\* Unwind as it would be were the process ended on the spot (os._exit), past every finally
UnwindPastFinally == "exit"

\* where control goes when an exception leaves the body: main's body runs inside
\* temporary_arena_root's try/finally, a direct call of prepare_match is not wrapped
Unwind == IF caller = "main" THEN "finally" ELSE "exit"

\* BodyStart as it would be were run_match called first
BodyStartAtRunMatch == "launch"

\* the first statement of main's with body: prepare_match
BodyStart == "mode"

\* where control goes when prepare_match returns
AfterPrepare == IF caller = "main" THEN "launch" ELSE "exit"

----------------------------------------------------------------------------
(* Initial states *)

FromPairs(S) == [p \in {x[1] : x \in S} |-> (CHOOSE x \in S : x[1] = p)[2]]

ZipStates == {"ok", "missing", "corrupt"}

BaseFs == FromPairs({<<tmp_root, DirNode>>, <<default_arena_root, DirNode>>,
                     <<archives_dir, DirNode>>, <<REPO_ROOT, DirNode>>})

ZipFiles(zips) ==
    FromPairs({<<archives_dir \o <<t \o ".zip">>,
                 FileNode(IF zips[t] = "ok" THEN ZipData(t) ELSE CorruptData)>> :
               t \in {u \in Teams : zips[u] # "missing"}})

\* what an earlier match left in the archives directory
PreviousOutputs ==
    FromPairs({<<archives_dir \o <<"matches">>, DirNode>>,
               <<archives_dir \o <<"matches", "001.yaml">>, FileNode(<<"old result">>)>>,
               <<archives_dir \o <<"recordings">>, DirNode>>,
               <<archives_dir \o <<"recordings", "textures">>, DirNode>>,
               <<archives_dir \o <<"recordings", "textures", "floor.png">>,
                 FileNode(<<"texture">>)>>,
               <<archives_dir \o <<"ABC">>, DirNode>>,
               <<archives_dir \o <<"ABC", "log-zone-0.txt">>, FileNode(<<"old log">>)>>})

ZoneStates == {"absent", "dir", "file"}

\* what an earlier use of the arena left at the zones' paths
StaleZones(root, stale) ==
    FromPairs(
        {<<root \o <<"zone-" \o ToStr(z)>>,
           IF stale[z] = "dir" THEN DirNode ELSE FileNode(<<"not a directory">>)>> :
         z \in {y \in Zones : stale[y] # "absent"}} \cup
        {<<root \o <<"zone-" \o ToStr(z), "robot.py">>, FileNode(<<"code", "old">>)>> :
         z \in {y \in Zones : stale[y] = "dir"}} \cup
        {<<root \o <<"zone-" \o ToStr(z), "stale.txt">>, FileNode(<<"left over">>)>> :
         z \in {y \in Zones : stale[y] = "dir"}})

EnvironStates == {<<>>, <<PathStr(default_arena_root)>>, <<PathStr(<<"elsewhere">>)>>}

Snapshot(f, root, env) == [archives |-> Tree(f, archives_dir), arena |-> Tree(f, root),
                           ARENA_ROOT |-> root, environ |-> env]

InitCommon ==
    /\ pc = "idle"
    /\ args = NoArgs
    /\ match_data = NoMatch
    /\ ARENA_ROOT = default_arena_root
    /\ original_arena_root = <<>>
    /\ tmpdir_name = ""
    /\ zone_id = 0
    /\ returncode = -1
    /\ exc = NoExc
    /\ status = -1
    /\ output = <<>>
    /\ steps = <<>>
    /\ pre = Snapshot(fs, ARENA_ROOT, environ)

\* main is about to be called: any state of the archives and of the environment variable
InitMain ==
    /\ caller = "main"
    /\ \E zips \in [Teams -> ZipStates], previous \in BOOLEAN :
          fs = ZipFiles(zips) @@ (IF previous THEN PreviousOutputs ELSE <<>>) @@ BaseFs
    /\ environ \in EnvironStates
    /\ InitCommon

\* prepare_match is about to be called on an arena that was used before
InitPrepare ==
    /\ caller = "prepare_match"
    /\ \E zips \in [Teams -> ZipStates], stale \in [Zones -> ZoneStates] :
          fs = ZipFiles(zips) @@ StaleZones(default_arena_root, stale) @@ BaseFs
    /\ environ = <<>>
    /\ InitCommon

\* main is about to be called with an archives directory in which the name matches is
\* taken by a regular file
InitBlocked ==
    /\ caller = "main"
    /\ fs = (archives_dir \o <<"matches">> :> FileNode(<<"not a directory">>))
            @@ ZipFiles([t \in Teams |-> "ok"]) @@ BaseFs
    /\ environ = <<>>
    /\ InitCommon

Init == InitMain \/ InitPrepare \/ InitBlocked

----------------------------------------------------------------------------
(* Steps of the orchestrator *)

TlaArgs == [1 .. NUM_ZONES -> Teams \cup {"-"}]

ParseArgs(n, tla) ==
    [archives_dir |-> archives_dir, match_num |-> n, tla |-> tla,
     duration |-> GAME_DURATION_SECONDS]

\* main(args), up to the with statement
CallMain ==
    /\ pc = "idle" /\ caller = "main"
    /\ \E n \in MatchNumbers, tla \in TlaArgs :
          /\ args' = ParseArgs(n, tla)
          /\ match_data' = construct_match_data(args')
    /\ pc' = "enter"
    /\ steps' = Append(steps, "main")
    /\ UNCHANGED <<caller, fs, ARENA_ROOT, environ, original_arena_root, tmpdir_name,
                   zone_id, returncode, exc, status, output, pre>>

\* prepare_match(archives_dir, match_data) called on its own
CallPrepareMatch ==
    /\ pc = "idle" /\ caller = "prepare_match"
    /\ \E n \in MatchNumbers, tla \in TlaArgs :
          /\ args' = ParseArgs(n, tla)
          /\ match_data' = construct_match_data(args')
    /\ pc' = "mode"
    /\ steps' = Append(steps, "prepare_match")
    /\ UNCHANGED <<caller, fs, ARENA_ROOT, environ, original_arena_root, tmpdir_name,
                   zone_id, returncode, exc, status, output, pre>>

\* temporary_arena_root, from its first line to the yield
\* EnterArenaRoot as it would be were only the environment variable pointed at the
\* temporary directory
EnterArenaRootEnvironOnly ==
    /\ pc = "enter"
    /\ original_arena_root' = ARENA_ROOT
    /\ tmpdir_name' = TemporaryDirectoryName("match-" \o ToStr(match_data.match_number))
    /\ fs' = mkdir(fs, Path(tmpdir_name'), FALSE).fs
    /\ output' = Append(output, print(<<"Using ", tmpdir_name', " as the arena">>))
    /\ environ' = <<tmpdir_name'>>
    /\ pc' = BodyStart
    /\ steps' = Append(steps, "enter")
    /\ UNCHANGED <<caller, args, match_data, ARENA_ROOT, zone_id, returncode, exc, status,
                   pre>>

EnterArenaRoot ==
    /\ pc = "enter"
    /\ original_arena_root' = ARENA_ROOT
    /\ tmpdir_name' = TemporaryDirectoryName("match-" \o ToStr(match_data.match_number))
    /\ fs' = mkdir(fs, Path(tmpdir_name'), FALSE).fs
    /\ output' = Append(output, print(<<"Using ", tmpdir_name', " as the arena">>))
    /\ environ' = <<tmpdir_name'>>
    /\ ARENA_ROOT' = Path(tmpdir_name')
    /\ pc' = BodyStart
    /\ steps' = Append(steps, "enter")
    /\ UNCHANGED <<caller, args, match_data, zone_id, returncode, exc, status, pre>>

\* the outcome r of the filesystem step called name: on to next, or the exception
\* propagates
\* Outcome as it would be were the exception caught and logged, and the run carried on
OutcomeCarryOn(r, next, name) ==
    /\ fs' = r.fs
    /\ pc' = next
    /\ IF r.exc = None
       THEN exc' = exc /\ steps' = Append(steps, name)
       ELSE exc' = Exception(r.exc) /\ steps' = steps \o <<name, "raise">>

Outcome(r, next, name) ==
    /\ fs' = r.fs
    /\ IF r.exc = None
       THEN pc' = next /\ exc' = exc /\ steps' = Append(steps, name)
       ELSE pc' = Unwind /\ exc' = Exception(r.exc) /\ steps' = steps \o <<name, "raise">>

\* prepare_match: get_mode_file().write_text('comp\n')
WriteModeFile ==
    /\ pc = "mode"
    /\ Outcome(write_text(fs, get_mode_file, <<"comp\n">>), "record", "mode")
    /\ UNCHANGED <<caller, args, match_data, ARENA_ROOT, environ, original_arena_root,
                   tmpdir_name, zone_id, returncode, status, output, pre>>

\* prepare_match: record_match_data(match_data)
RecordMatchData ==
    /\ pc = "record"
    /\ Outcome(record_match_data(fs, match_data), "stage", "record")
    /\ zone_id' = 0
    /\ UNCHANGED <<caller, args, match_data, ARENA_ROOT, environ, original_arena_root,
                   tmpdir_name, returncode, status, output, pre>>

\* prepare_match: one turn of the loop over the zones
StageZone ==
    /\ pc = "stage"
    /\ LET last == zone_id + 1 >= Len(match_data.teams)
       IN  /\ Outcome(prepare_zone(fs, args.archives_dir, zone_id,
                                   TeamIn(match_data, zone_id)),
                      IF last THEN AfterPrepare ELSE "stage", "stage")
           /\ zone_id' = IF last THEN 0 ELSE zone_id + 1
    /\ UNCHANGED <<caller, args, match_data, ARENA_ROOT, environ, original_arena_root,
                   tmpdir_name, returncode, status, output, pre>>

----------------------------------------------------------------------------
(* run_match and the simulation engine *)

\* check_call_raises as it would be with subprocess.call, which never raises on the code
call_never_raises(rc) == FALSE

\* subprocess.check_call raises CalledProcessError exactly on a non-zero exit code
check_call_raises(rc) == rc # 0

\* engine_failure_output as it would be with the summary printed before the log
engine_failure_output_summary_first(f, rc) ==
    IF ~exists(f, get_competition_supervisor_log_filepath)
    THEN <<print_fatal(<<"Simulation errored (exit code ", ToStr(rc), "). ",
                         "No supervisor logs were found - Webots may have crashed.">>)>>
    ELSE <<print_fatal(<<"Simulation errored (exit code ", ToStr(rc), "). ",
                         "Competition supervisor logs are below.">>),
           print_error(f[get_competition_supervisor_log_filepath].data, FALSE)>>

\* what run_match prints when the engine exited with rc, given the filesystem then
engine_failure_output(f, rc) ==
    IF ~exists(f, get_competition_supervisor_log_filepath)
    THEN <<print_fatal(<<"Simulation errored (exit code ", ToStr(rc), "). ",
                         "No supervisor logs were found - Webots may have crashed.">>)>>
    ELSE <<print_error(f[get_competition_supervisor_log_filepath].data, FALSE),
           print_fatal(<<"Simulation errored (exit code ", ToStr(rc), "). ",
                         "Competition supervisor logs are above.">>)>>

not_found_output ==
    <<print_fatal(<<"Could not find webots. ",
                    "Check that you have it installed and on your PATH">>)>>

\* run_match: subprocess.check_call starts webots, or webots is not on the PATH
\* LaunchEngine as it would be were the engine started with Popen and not waited for
LaunchEngineNoWait ==
    /\ pc = "launch"
    /\ pc' = "collate"
    /\ steps' = Append(steps, "launch")
    /\ UNCHANGED <<caller, args, match_data, fs, ARENA_ROOT, environ, original_arena_root,
                   tmpdir_name, zone_id, returncode, exc, status, output, pre>>

LaunchEngine ==
    /\ pc = "launch"
    /\ \E found \in BOOLEAN :
          IF found
          THEN /\ pc' = "wait"
               /\ steps' = Append(steps, "launch")
               /\ UNCHANGED <<exc, output>>
          ELSE /\ output' = output \o not_found_output
               /\ exc' = exit(1)
               /\ pc' = Unwind
               /\ steps' = steps \o <<"launch", "not_found", "exit">>
    /\ UNCHANGED <<caller, args, match_data, fs, ARENA_ROOT, environ, original_arena_root,
                   tmpdir_name, zone_id, returncode, status, pre>>

\* what the engine leaves behind.  It is a child process: it finds the arena through the
\* ARENA_ROOT variable of the environment it inherits.
EngineWrites(f, root, md, rc, logs, exts, textures, suplog) ==
    LET stem == RecordingStemAt(root, md)
        rec == Parent(stem)
        recordings ==
            IF exts = {} /\ ~textures THEN <<>>
            ELSE FromPairs(
                    {<<rec, DirNode>>, <<rec \o <<"index.html">>, FileNode(<<"index">>)>>} \cup
                    {<<rec \o <<Name(stem) \o "." \o e>>, FileNode(<<"recording", e>>)>> :
                     e \in exts} \cup
                    (IF textures
                     THEN {<<rec \o <<"textures">>, DirNode>>,
                           <<rec \o <<"textures", "floor.png">>, FileNode(<<"texture">>)>>}
                     ELSE {}))
        zonelogs ==
            FromPairs({<<Parent(ZoneRobotFileAt(root, z)) \o <<get_robot_log_filename(z)>>,
                         FileNode(<<"log", ToStr(z)>>)>> : z \in logs})
        scored ==
            IF exists(f, MatchFileAt(root))
            THEN (MatchFileAt(root) :> FileNode(f[MatchFileAt(root)].data \o <<"scores">>))
            ELSE <<>>
    IN  IF rc = 0
        THEN (SupervisorLogAt(root) :> FileNode(<<"match ran">>)) @@ recordings @@ zonelogs
             @@ scored @@ f
        ELSE IF suplog THEN (SupervisorLogAt(root) :> FileNode(<<"error X">>)) @@ f
        ELSE f

RecordingChoices == {{}, {"mp4"}, RecordingExts}

\* the engine runs the match and exits; the orchestrator is blocked in check_call meanwhile
EngineExit ==
    /\ pc = "wait"
    /\ \E rc \in ExitCodes :
          LET root == Path(environ[1])
              staged == {z \in Zones : is_dir(fs, Parent(ZoneRobotFileAt(root, z)))}
          IN  /\ returncode' = rc
              /\ IF rc = 0
                 THEN \E logs \in SUBSET staged, exts \in RecordingChoices,
                         textures \in BOOLEAN :
                         fs' = EngineWrites(fs, root, match_data, rc, logs, exts, textures, TRUE)
                 ELSE \E suplog \in BOOLEAN :
                         fs' = EngineWrites(fs, root, match_data, rc, {}, {}, FALSE, suplog)
    /\ pc' = "returned"
    /\ steps' = Append(steps, "engine_exit")
    /\ UNCHANGED <<caller, args, match_data, ARENA_ROOT, environ, original_arena_root,
                   tmpdir_name, zone_id, exc, status, output, pre>>

\* run_match: check_call returns, or raises CalledProcessError and the handler runs
RunMatchReturn ==
    /\ pc = "returned"
    /\ IF check_call_raises(returncode)
       THEN /\ output' = output \o engine_failure_output(fs, returncode)
            /\ exc' = exit(1)
            /\ pc' = Unwind
            /\ steps' = steps \o <<"engine_failed", "exit">>
       ELSE /\ pc' = "collate"
            /\ steps' = Append(steps, "run_match_return")
            /\ UNCHANGED <<exc, output>>
    /\ zone_id' = 0
    /\ UNCHANGED <<caller, args, match_data, fs, ARENA_ROOT, environ, original_arena_root,
                   tmpdir_name, returncode, status, pre>>

----------------------------------------------------------------------------
(* Collation *)

\* CollateLogs as it would be were the archives directory put back as it was before the
\* run when a copy fails
CollateLogsRollback ==
    /\ pc = "collate"
    /\ LET last == zone_id + 1 >= Len(match_data.teams)
           r == collate_zone(fs, args.archives_dir, zone_id, TeamIn(match_data, zone_id))
           outside == {p \in DOMAIN r.fs : ~Under(p, args.archives_dir)}
       IN  /\ Outcome(IF r.exc = None THEN r
                      ELSE Raise(r.exc, pre.archives @@ Restrict(r.fs, outside)),
                      IF last THEN "match_file" ELSE "collate", "collate_logs")
           /\ zone_id' = IF last THEN 0 ELSE zone_id + 1
    /\ UNCHANGED <<caller, args, match_data, ARENA_ROOT, environ, original_arena_root,
                   tmpdir_name, returncode, status, output, pre>>

\* collate_logs: one turn of the loop over the zones
CollateLogs ==
    /\ pc = "collate"
    /\ LET last == zone_id + 1 >= Len(match_data.teams)
       IN  /\ Outcome(collate_zone(fs, args.archives_dir, zone_id,
                                   TeamIn(match_data, zone_id)),
                      IF last THEN "match_file" ELSE "collate", "collate_logs")
           /\ zone_id' = IF last THEN 0 ELSE zone_id + 1
    /\ UNCHANGED <<caller, args, match_data, ARENA_ROOT, environ, original_arena_root,
                   tmpdir_name, returncode, status, output, pre>>

ArchiveMatchFile ==
    /\ pc = "match_file"
    /\ Outcome(archive_match_file(fs, args.archives_dir, match_data), "recordings", "archive_match_file")
    /\ UNCHANGED <<caller, args, match_data, ARENA_ROOT, environ, original_arena_root,
                   tmpdir_name, zone_id, returncode, status, output, pre>>

ArchiveMatchRecordings ==
    /\ pc = "recordings"
    /\ Outcome(archive_match_recordings(fs, args.archives_dir), "finally", "archive_match_recordings")
    /\ UNCHANGED <<caller, args, match_data, ARENA_ROOT, environ, original_arena_root,
                   tmpdir_name, zone_id, returncode, status, output, pre>>

----------------------------------------------------------------------------
(* Leaving temporary_arena_root *)

\* the value the finally block puts back into os.environ['ARENA_ROOT']
restored_environ == <<PathStr(original_arena_root)>>

\* temporary_arena_root: the finally block
RestoreArenaRoot ==
    /\ pc = "finally"
    /\ environ' = restored_environ
    /\ ARENA_ROOT' = original_arena_root
    /\ pc' = "cleanup"
    /\ steps' = Append(steps, "restore")
    /\ UNCHANGED <<caller, args, match_data, fs, original_arena_root, tmpdir_name, zone_id,
                   returncode, exc, status, output, pre>>

\* TemporaryDirectory.__exit__: the directory is removed with all it holds, unless the
\* removal itself fails, and then that error propagates in place of any earlier one
CleanupTemporaryDirectory ==
    /\ pc = "cleanup"
    /\ \E removed \in BOOLEAN :
          IF removed
          THEN /\ fs' = rmtree(fs, Path(tmpdir_name)).fs
               /\ exc' = exc
               /\ steps' = Append(steps, "cleanup")
          ELSE /\ fs' = fs
               /\ exc' = Exception("OSError")
               /\ steps' = steps \o <<"cleanup", "cleanup_failed">>
    /\ pc' = "exit"
    /\ UNCHANGED <<caller, args, match_data, ARENA_ROOT, environ, original_arena_root,
                   tmpdir_name, zone_id, returncode, status, output, pre>>

\* the call ends: it returns, or the exception reaches the interpreter
Terminate ==
    /\ pc = "exit"
    /\ pc' = "done"
    /\ status' = exc.code
    /\ UNCHANGED <<caller, args, match_data, fs, ARENA_ROOT, environ, original_arena_root,
                   tmpdir_name, zone_id, returncode, exc, output, steps, pre>>

Next ==
    \/ CallMain
    \/ CallPrepareMatch
    \/ EnterArenaRoot
    \/ WriteModeFile
    \/ RecordMatchData
    \/ StageZone
    \/ LaunchEngine
    \/ EngineExit
    \/ RunMatchReturn
    \/ CollateLogs
    \/ ArchiveMatchFile
    \/ ArchiveMatchRecordings
    \/ RestoreArenaRoot
    \/ CleanupTemporaryDirectory
    \/ Terminate

Spec == Init /\ [][Next]_vars

----------------------------------------------------------------------------
(* The same match run a second time *)

\* main is about to be called with every assigned team's archive in place
InitRerun ==
    /\ caller = "main"
    /\ \E previous \in BOOLEAN :
          fs = ZipFiles([t \in Teams |-> "ok"]) @@ (IF previous THEN PreviousOutputs ELSE <<>>)
               @@ BaseFs
    /\ environ = <<>>
    /\ InitCommon

\* main(args) called again with the arguments of a run that ended with status zero
Rerun ==
    /\ pc = "done" /\ caller = "main" /\ status = 0
    /\ Cardinality({i \in DOMAIN steps : steps[i] = "main"}) = 1
    /\ match_data' = construct_match_data(args)
    /\ pc' = "enter"
    /\ zone_id' = 0
    /\ returncode' = -1
    /\ exc' = NoExc
    /\ status' = -1
    /\ steps' = Append(steps, "main")
    /\ pre' = Snapshot(fs, ARENA_ROOT, environ)
    /\ UNCHANGED <<caller, args, fs, ARENA_ROOT, environ, original_arena_root, tmpdir_name,
                   output>>

NextRerun ==
    \/ CallMain
    \/ EnterArenaRoot
    \/ WriteModeFile
    \/ RecordMatchData
    \/ StageZone
    \/ LaunchEngine
    \/ EngineExit
    \/ RunMatchReturn
    \/ CollateLogs
    \/ ArchiveMatchFile
    \/ ArchiveMatchRecordings
    \/ RestoreArenaRoot
    \/ CleanupTemporaryDirectory
    \/ Terminate
    \/ Rerun

SpecRerun == InitRerun /\ [][NextRerun]_vars

----------------------------------------------------------------------------
(* A run of main with the interpreter making progress *)

NextMain ==
    \/ CallMain
    \/ EnterArenaRoot
    \/ WriteModeFile
    \/ RecordMatchData
    \/ StageZone
    \/ LaunchEngine
    \/ EngineExit
    \/ RunMatchReturn
    \/ CollateLogs
    \/ ArchiveMatchFile
    \/ ArchiveMatchRecordings
    \/ RestoreArenaRoot
    \/ CleanupTemporaryDirectory
    \/ Terminate

\* where the orchestrator has a statement of its own to run: everywhere in main but
\* before the call, inside check_call, and after the end
OrchestratorPositions ==
    {"enter", "mode", "record", "stage", "launch", "returned", "collate", "match_file",
     "recordings", "finally", "cleanup", "exit"}

\* the orchestrator runs the statement it is at and moves on to the next statement or,
\* in a loop over the zones, to the next zone
Advance ==
    /\ pc \in OrchestratorPositions
    /\ pc' \in OrchestratorPositions \cup {"wait", "done"}
    /\ zone_id' \in 0 .. NUM_ZONES

\* the interpreter runs the next statement whenever there is one; nothing makes the
\* engine exit (check_call has no timeout)
SpecLive == InitMain /\ [][NextMain]_vars /\ WF_<<pc, zone_id>>(Advance)

----------------------------------------------------------------------------
(* Properties *)

Positions(name) == {i \in DOMAIN steps : steps[i] = name}
Took(name) == name \in Range(steps)

CollationSteps == {"collate_logs", "archive_match_file", "archive_match_recordings"}
Collated == Range(steps) \cap CollationSteps # {}
EngineNotFound == Took("not_found")
EngineFailed == Took("engine_failed")
CleanupFailed == Took("cleanup_failed")
\* all three collation steps ran and none raised
CollationCompleted == Took("archive_match_recordings") /\ ~Took("raise")
LeftBody == pc \in {"finally", "cleanup", "exit", "done"}
Workspace == Path(tmpdir_name)

\* C1, amended: when main has ended, on any path, controller_utils.ARENA_ROOT is what it
\* was before the call, and the temporary directory is gone unless its removal itself
\* failed.
C1_Teardown ==
    (pc = "done" /\ caller = "main") =>
        /\ ARENA_ROOT = pre.ARENA_ROOT
        /\ ~CleanupFailed => ~exists(fs, Workspace)

\* C1 as stated: when main has ended, on any path, the temporary directory is gone
\* and controller_utils.ARENA_ROOT is what it was before the call.
C1_AsStated ==
    (pc = "done" /\ caller = "main") =>
        /\ ARENA_ROOT = pre.ARENA_ROOT
        /\ ~exists(fs, Workspace)

\* a run that ended through exit(1) after the engine failed, with the workspace removed
C1_Witness ==
    /\ pc = "done" /\ caller = "main" /\ EngineFailed
    /\ exc.type = "SystemExit"
    /\ ~exists(fs, Workspace) /\ exists(pre.archives, archives_dir)

\* C2: once temporary_arena_root has been left, the ARENA_ROOT environment variable is
\* what it was before it was entered, whatever that was (unset included).
C2_EnvironRestored ==
    (caller = "main" /\ pc \in {"cleanup", "exit", "done"}) => environ = pre.environ

\* C3: when the engine is launched the mode marker and the match record are in the
\* workspace the engine will read, each written once before the launch, and neither is
\* written after the launch.
C3_RecordBeforeLaunch ==
    /\ pc = "wait" =>
          LET root == Path(environ[1])
          IN  /\ is_file(fs, ModeFileAt(root))
              /\ fs[ModeFileAt(root)].data = <<"comp\n">>
              /\ is_file(fs, MatchFileAt(root))
              /\ fs[MatchFileAt(root)].data =
                    <<"match", ToStr(args.match_num)>> \o match_data.teams
                    \o <<ToStr(args.duration)>>
    /\ \A i \in Positions("launch") :
          /\ Cardinality({j \in Positions("mode") : j < i}) = 1
          /\ Cardinality({j \in Positions("record") : j < i}) = 1
          /\ \A j \in DOMAIN steps : j > i => steps[j] \notin {"mode", "record"}
          /\ ~Took("raise") \/ \A j \in Positions("raise") : j > i

\* the engine is running, and the record it reads names a team
C3_Witness ==
    /\ pc = "wait" /\ Took("launch")
    /\ \E z \in Zones : TeamIn(match_data, z) # None
    /\ is_file(fs, get_match_file)

\* C4: a collation step is taken only after run_match returned with exit code zero; when
\* the engine was not found or exited non-zero no collation step is taken and the
\* archives directory is as it was.
C4_NoCollationAfterFailure ==
    /\ Collated =>
          /\ returncode = 0
          /\ \A i \in DOMAIN steps : steps[i] \in CollationSteps =>
                \E j \in Positions("run_match_return") : j < i
    /\ (EngineNotFound \/ EngineFailed) =>
          /\ ~Collated
          /\ LeftBody
          /\ Tree(fs, archives_dir) = pre.archives

\* a run that ended after the engine exited with code 7
C4_Witness ==
    /\ pc = "done" /\ EngineFailed /\ returncode = 7 /\ ~Collated
    /\ \E z \in Zones : TeamIn(match_data, z) # None

\* C5: when webots is not found, the last thing printed is a bold diagnostic naming
\* webots, the archives directory holds exactly what it held before main was called, and
\* main ends with a non-zero status.
C5_MissingEngine ==
    EngineNotFound =>
        /\ LeftBody
        /\ Tree(fs, archives_dir) = pre.archives
        /\ LET d == output[Len(output)]
           IN  /\ d.BOLD # ""
               /\ \E part \in Range(d.message) : Contains(part, "webots")
        /\ pc = "done" => status # 0

\* a run that ended for want of webots, after a team was staged, over earlier outputs
C5_Witness ==
    /\ pc = "done" /\ EngineNotFound /\ status = 1
    /\ \E z \in Zones : TeamIn(match_data, z) # None
    /\ exists(pre.archives, archives_dir \o <<"matches", "001.yaml">>)

\* C6: when the engine exited non-zero and the supervisor log exists, run_match prints
\* the log's contents and then the bold summary naming the exit code; the summary stays
\* the last thing printed and main ends with a non-zero status.
C6_LogThenSummary ==
    EngineFailed =>
        LET n == Len(output)
        IN  /\ output[n].BOLD # ""
            /\ ToStr(returncode) \in Range(output[n].message)
            /\ (pc \in {"finally", "cleanup"} /\ exists(fs, SupervisorLogAt(Workspace))) =>
                  /\ n = 3
                  /\ output[2].message = fs[SupervisorLogAt(Workspace)].data
                  /\ output[2].BOLD = ""
                  /\ \E part \in Range(output[3].message) : Contains(part, "logs are above")
            /\ pc = "done" => status # 0

\* the handler has printed the log "error X" and the summary for exit code 7
C6_Witness ==
    /\ pc = "finally" /\ EngineFailed /\ returncode = 7
    /\ exists(fs, SupervisorLogAt(Workspace))
    /\ output[2].message = <<"error X">>

\* C7: when the engine exited non-zero and there is no supervisor log, run_match prints
\* one thing only: a bold diagnostic with the exit code that says no supervisor log was
\* found; main ends with a non-zero status.
C7_NoLogDiagnostic ==
    /\ (EngineFailed /\ pc \in {"finally", "cleanup"}
        /\ ~exists(fs, SupervisorLogAt(Workspace))) =>
          /\ Len(output) = 2
          /\ output[2].BOLD # ""
          /\ ToStr(returncode) \in Range(output[2].message)
          /\ \E part \in Range(output[2].message) :
                Contains(part, "No supervisor logs were found")
    /\ (EngineFailed /\ Len(output) = 2 /\ pc = "done") => status # 0

\* the handler has printed its diagnostic for exit code 7 and there is no log
C7_Witness ==
    /\ pc = "finally" /\ EngineFailed /\ returncode = 7
    /\ ~exists(fs, SupervisorLogAt(Workspace))
    /\ Len(output) = 2

\* C8, amended: main ends with status zero exactly when the engine exited with code
\* zero, all three collation steps completed and the removal of the temporary directory
\* did not fail; a missing engine, a non-zero engine exit and an exception in staging or
\* collation each end it with a non-zero status.
C8_ExitStatus ==
    (pc = "done" /\ caller = "main") =>
        /\ status = 0 <=> (returncode = 0 /\ CollationCompleted /\ ~CleanupFailed)
        /\ (EngineNotFound \/ EngineFailed \/ Took("raise")) => status # 0

\* C8 as stated: main ends with status zero exactly when the engine exited with code
\* zero and all three collation steps completed.
C8_AsStated ==
    (pc = "done" /\ caller = "main") =>
        (status = 0 <=> (returncode = 0 /\ CollationCompleted))

\* a run that ended with status zero after a full collation
C8_Witness ==
    /\ pc = "done" /\ caller = "main" /\ status = 0
    /\ returncode = 0 /\ CollationCompleted

\* prepare_match has returned: to its caller, or to main, which is about to call run_match
PrepareReturned ==
    \/ caller = "prepare_match" /\ pc \in {"exit", "done"} /\ exc = NoExc
    \/ caller = "main" /\ pc = "launch"

\* C9: when prepare_match has returned, a zone's directory exists exactly if a team is
\* assigned to the zone; nothing exists at the path of a zone without a team.
C9_ZoneDirIffAssigned ==
    PrepareReturned =>
        \A z \in Zones :
            /\ is_dir(fs, get_zone_path(z)) <=> TeamIn(match_data, z) # None
            /\ TeamIn(match_data, z) = None => ~exists(fs, get_zone_path(z))

\* prepare_match returned where a zone without a team had a directory before, and
\* another zone has a team
C9_Witness ==
    /\ caller = "prepare_match" /\ pc = "done" /\ exc = NoExc
    /\ \E z \in Zones : /\ TeamIn(match_data, z) = None
                        /\ is_dir(pre.arena, get_zone_path(z))
    /\ \E z \in Zones : TeamIn(match_data, z) # None

\* what zone z's directory holds: relative path -> node
ZoneContents(z) ==
    LET zone_path == get_zone_path(z)
        inside == {p \in DOMAIN fs : Under(p, zone_path) /\ p # zone_path}
    IN  [rel \in {SubSeq(p, Len(zone_path) + 1, Len(p)) : p \in inside} |->
            fs[zone_path \o rel]]

\* C10: when prepare_match has returned, the directory of a zone with a team holds
\* exactly what the team's archive holds, whatever was at the zone's path before.
C10_ZoneHoldsArchiveOnly ==
    PrepareReturned =>
        \A z \in Zones :
            TeamIn(match_data, z) # None =>
                ZoneContents(z) = ArchiveEntries(TeamIn(match_data, z))

\* prepare_match returned where a zone with a team had a directory with other files before
C10_Witness ==
    /\ caller = "prepare_match" /\ pc = "done" /\ exc = NoExc
    /\ \E z \in Zones : /\ TeamIn(match_data, z) = "DEF"
                        /\ exists(pre.arena, get_zone_path(z) \o <<"stale.txt">>)


\* the archive of a team assigned to a zone was missing or unreadable when main was called
BadArchive ==
    /\ pc # "idle"
    /\ \E z \in Zones :
          /\ TeamIn(match_data, z) # None
          /\ ZipFile(pre.archives, archives_dir \o <<TeamIn(match_data, z) \o ".zip">>) # None

\* C11: when the archive of an assigned team is missing or unreadable, main never
\* launches the engine and never collates, the archives directory stays as it was, and
\* main ends with an error.
C11_StagingFailureFatal ==
    (caller = "main" /\ BadArchive) =>
        /\ pc \in {"enter", "mode", "record", "stage", "finally", "cleanup", "exit", "done"}
        /\ ~Took("launch") /\ ~Took("engine_exit") /\ ~Collated
        /\ Tree(fs, archives_dir) = pre.archives
        /\ pc = "done" =>
              /\ status # 0
              /\ exc.type \in {"FileNotFoundError", "BadZipFile", "OSError"}

\* main ended on an unreadable archive after another zone had been staged
C11_Witness ==
    /\ caller = "main" /\ pc = "done" /\ BadArchive
    /\ exc.type = "BadZipFile" /\ status = 1
    /\ Cardinality(Positions("stage")) > 1


SecondRun == Cardinality(Positions("main")) = 2
\* the name the result of match n is archived under: three digits at least
ExpectedMatchFile(n) ==
    (IF n < 10 THEN "00" ELSE IF n < 100 THEN "0" ELSE "") \o ToStr(n) \o ".yaml"

\* C12: archive_match_file never fails, whether or not matches/ or the match's file is
\* already there; when the second of two successful runs with the same arguments has
\* archived its match file, matches/<number padded to 3 digits>.yaml holds what the
\* first run left there and matches/ holds the same entries as after the first run.
C12_RerunOverwrites ==
    /\ \A i \in Positions("archive_match_file") : i = Len(steps) \/ steps[i + 1] # "raise"
    /\ (SecondRun /\ Cardinality(Positions("archive_match_file")) = 2) =>
          LET matches_dir == archives_dir \o <<"matches">>
              file == matches_dir \o <<ExpectedMatchFile(args.match_num)>>
          IN  /\ is_file(fs, file)
              /\ is_file(pre.archives, file)
              /\ fs[file] = pre.archives[file]
              /\ Children(fs, matches_dir) = Children(pre.archives, matches_dir)

\* the second run of match 12 ended with status zero
C12_Witness ==
    /\ SecondRun /\ pc = "done" /\ status = 0
    /\ args.match_num = 12
    /\ Cardinality(Positions("archive_match_file")) = 2


\* archive_match_recordings was the last step of the body and returned
RecordingsArchived ==
    /\ pc = "finally" /\ caller = "main"
    /\ steps[Len(steps)] = "archive_match_recordings"

\* C13: when archive_match_recordings has returned, every recording the engine left in
\* the workspace's recordings directory under the name match-<number>.<extension> is in
\* archives_dir/recordings with the same content, and archives_dir/recordings/textures is
\* a directory; and when the engine left its textures directory the operation returns,
\* whether or not archives_dir/recordings/textures was there from an earlier match.
C13_RecordingsCollated ==
    (pc = "finally" /\ caller = "main" /\ Took("archive_match_recordings")) =>
        LET produced == ARENA_ROOT \o <<"recordings">>
            archived == archives_dir \o <<"recordings">>
            RecordingName(e) == "match-" \o ToStr(args.match_num) \o "." \o e
        IN  /\ is_dir(fs, produced \o <<"textures">>) => RecordingsArchived
            /\ RecordingsArchived =>
                  /\ \A e \in RecordingExts :
                        is_file(fs, produced \o <<RecordingName(e)>>) =>
                            /\ is_file(fs, archived \o <<RecordingName(e)>>)
                            /\ fs[archived \o <<RecordingName(e)>>] =
                                  fs[produced \o <<RecordingName(e)>>]
                  /\ is_dir(fs, archived \o <<"textures">>)

\* the recordings of a match were archived next to textures an earlier match had left
C13_Witness ==
    /\ RecordingsArchived
    /\ is_dir(pre.archives, archives_dir \o <<"recordings", "textures">>)
    /\ \A e \in RecordingExts :
          is_file(fs, archives_dir \o <<"recordings", "match-12." \o e>>)
    /\ ~is_file(pre.archives, archives_dir \o <<"recordings", "match-12.mp4">>)


\* the log the engine writes for zone z, and where collate_logs puts it
ZoneLog(z) == ARENA_ROOT \o <<"zone-" \o ToStr(z), "log-zone-" \o ToStr(z) \o ".txt">>
TeamLog(z) == archives_dir \o <<TeamIn(match_data, z), "log-zone-" \o ToStr(z) \o ".txt">>
Assigned == {z \in Zones : TeamIn(match_data, z) # None}
\* collate_logs raised
CollateLogsFailed ==
    /\ Len(steps) >= 2
    /\ steps[Len(steps) - 1] = "collate_logs" /\ steps[Len(steps)] = "raise"

\* C14: when collate_logs has returned, the log of every zone with a team is in
\* archives_dir/<team> with the content the engine wrote, the only paths of archives_dir
\* that are new or changed are those team directories and logs (nothing for a zone without
\* a team), and collate_logs raises only when the engine left no log for an assigned
\* zone, never because a team directory is already there.
C14_LogsCollated ==
    /\ (caller = "main" /\ pc = "match_file") =>
          /\ \A z \in Assigned :
                /\ is_dir(fs, Parent(TeamLog(z)))
                /\ is_file(fs, TeamLog(z))
                /\ fs[TeamLog(z)] = fs[ZoneLog(z)]
          /\ \A p \in DOMAIN Tree(fs, archives_dir) :
                \/ p \in DOMAIN pre.archives /\ fs[p] = pre.archives[p]
                \/ \E z \in Assigned : p \in {TeamLog(z), Parent(TeamLog(z))}
          /\ ~exists(fs, archives_dir \o <<None>>)
    /\ (caller = "main" /\ pc = "finally" /\ CollateLogsFailed) =>
          \E z \in Assigned : ~exists(fs, ZoneLog(z))

\* collate_logs returned for a match with an empty zone and team ABC, whose directory an
\* earlier match had left, and ABC's log replaced or joined what was there
C14_Witness ==
    /\ caller = "main" /\ pc = "match_file"
    /\ Assigned # Zones
    /\ \E z \in Assigned :
          /\ TeamIn(match_data, z) = "ABC"
          /\ is_dir(pre.archives, archives_dir \o <<"ABC">>)
          /\ fs[TeamLog(z)].data = <<"log", ToStr(z)>>


\* the steps of a run of main that meets no failure, in the order main's body has them
Canonical ==
    <<"main", "enter", "mode", "record">> \o [z \in 1 .. NUM_ZONES |-> "stage"]
    \o <<"launch", "engine_exit", "run_match_return">>
    \o [z \in 1 .. NUM_ZONES |-> "collate_logs"]
    \o <<"archive_match_file", "archive_match_recordings">>
FailureMarks == {"raise", "not_found", "engine_failed"}
TeardownSteps == {"restore", "cleanup"}
IsBodyStep(s) == s \notin FailureMarks \cup TeardownSteps \cup {"exit", "cleanup_failed"}
IsTeardownStep(s) == s \in TeardownSteps
BodySteps == SelectSeq(steps, IsBodyStep)
IsPrefix(s, t) == Len(s) <= Len(t) /\ s = SubSeq(t, 1, Len(s))

\* C15: the steps taken by a run of main are an initial part of: enter the workspace,
\* mode marker, match record, one staging per zone from zone 0 up, engine launch and
\* exit, one log collation per zone, archive_match_file, archive_match_recordings; so
\* each happens at most once and in that order.  After the first failure nothing follows
\* but leaving the workspace (restore, then removal), which happens exactly once, after
\* the body has finished or failed, before the run ends.
C15_FixedOrder ==
    caller = "main" =>
        /\ IsPrefix(BodySteps, Canonical)
        /\ \A i, j \in DOMAIN steps :
              (i < j /\ steps[i] \in FailureMarks) =>
                  steps[j] \in {"exit", "restore", "cleanup", "cleanup_failed"}
        /\ IsPrefix(SelectSeq(steps, IsTeardownStep), <<"restore", "cleanup">>)
        /\ Took("restore") => (BodySteps = Canonical \/ Range(steps) \cap FailureMarks # {})
        /\ pc = "done" => (Took("restore") /\ Took("cleanup"))
        /\ pc = "stage" => Cardinality(Positions("stage")) = zone_id
        /\ pc = "collate" => Cardinality(Positions("collate_logs")) = zone_id

\* a run ended after staging failed at a zone other than the first: every later step of
\* the body was skipped and the workspace left
C15_Witness ==
    /\ caller = "main" /\ pc = "done"
    /\ Cardinality(Positions("stage")) > 1
    /\ steps[Len(steps) - 2] = "raise"
    /\ steps[Len(steps) - 3] = "stage"
    /\ ~Took("launch")


\* C16, amended: while check_call waits, the only thing that happens is the engine's
\* exit: the orchestrator collates nothing, tears nothing down and leaves ARENA_ROOT and
\* the environment variable alone; a run that launched the engine ends only after the
\* engine has exited; and once the engine has exited the run ends, with the workspace
\* removed unless the removal itself failed.
C16_BlocksOnEngine ==
    /\ [][pc = "wait" =>
            /\ pc' = "returned"
            /\ steps' = Append(steps, "engine_exit")
            /\ UNCHANGED <<ARENA_ROOT, environ, exc, status, output>>
            /\ Tree(fs', archives_dir) = Tree(fs, archives_dir)
            /\ is_dir(fs', Workspace)]_vars
    /\ []((pc \notin {"idle", "enter", "mode", "record", "stage", "launch", "wait"}
           /\ ~EngineNotFound /\ Took("launch")) => Took("engine_exit"))
    /\ Took("engine_exit") ~>
          (pc = "done" /\ (~CleanupFailed => ~exists(fs, Workspace)))

\* C16 as stated: once the engine has exited the run ends with the workspace removed.
C16_AsStated ==
    Took("engine_exit") ~> (pc = "done" /\ ~exists(fs, Workspace))

\* the engine exited and the run ended with the workspace removed
C16_Witness ==
    /\ pc = "done" /\ Took("engine_exit") /\ status = 0
    /\ ~exists(fs, Workspace)
    /\ steps[Len(steps)] = "cleanup"


\* inside the with block of main: from prepare_match to archive_match_recordings
InBody ==
    /\ caller = "main"
    /\ pc \in {"mode", "record", "stage", "launch", "wait", "returned", "collate",
               "match_file", "recordings"}

\* C17: at every point of the body of temporary_arena_root the ARENA_ROOT environment
\* variable is set to the string of controller_utils.ARENA_ROOT, both name the temporary
\* directory made for this match (not the arena root of before the call), and that
\* directory exists.
C17_BodySeesWorkspace ==
    InBody =>
        /\ environ = <<PathStr(ARENA_ROOT)>>
        /\ ARENA_ROOT = tmp_root \o <<"tmpx1y2z3match-" \o ToStr(args.match_num)>>
        /\ PathStr(ARENA_ROOT) = tmpdir_name
        /\ ARENA_ROOT # pre.ARENA_ROOT
        /\ is_dir(fs, ARENA_ROOT)

\* the last step of the body is about to run, in a process whose environment named
\* another arena before the call
C17_Witness ==
    /\ InBody /\ pc = "recordings"
    /\ pre.environ = <<"/elsewhere">>
    /\ environ = <<"/tmp/tmpx1y2z3match-12">>
    /\ is_dir(fs, ARENA_ROOT)


\* the finally block has run and the removal of the temporary directory is next
DeletionNext == caller = "main" /\ pc = "cleanup"

\* C18: when the removal of the temporary directory is attempted the arena-root reference
\* and the ARENA_ROOT environment variable are already what they were before the call
\* and the directory is still there; so the reference is its pre-call value also when
\* the removal has failed.
C18_RestoredBeforeDeletion ==
    /\ DeletionNext =>
          /\ ARENA_ROOT = pre.ARENA_ROOT
          /\ environ = pre.environ
          /\ is_dir(fs, Workspace)
    /\ (caller = "main" /\ CleanupFailed) => ARENA_ROOT = pre.ARENA_ROOT

\* the part of C18 about the reference alone, with the environment variable being what
\* the finally block assigns: the string of the saved reference
C18_ReferenceBeforeDeletion ==
    /\ DeletionNext =>
          /\ ARENA_ROOT = pre.ARENA_ROOT
          /\ environ = <<PathStr(pre.ARENA_ROOT)>>
          /\ is_dir(fs, Workspace)
          /\ steps[Len(steps)] = "restore"
    /\ (caller = "main" /\ CleanupFailed) =>
          /\ ARENA_ROOT = pre.ARENA_ROOT
          /\ \A i \in Positions("restore"), j \in Positions("cleanup") : i < j


CollationFailedAt(name) == \E i \in Positions("raise") : i > 1 /\ steps[i - 1] = name
CollationFailed == \E name \in CollationSteps : CollationFailedAt(name)
\* how many zones collate_logs got through
LogsDone ==
    Cardinality(Positions("collate_logs"))
    - (IF CollationFailedAt("collate_logs") THEN 1 ELSE 0)
\* p is in the archives directory exactly as before the run, or absent as before
AsBefore(p) ==
    /\ exists(fs, p) <=> exists(pre.archives, p)
    /\ exists(fs, p) => fs[p] = pre.archives[p]
ArchivedMatchFile == archives_dir \o <<"matches", ExpectedMatchFile(args.match_num)>>

\* C19: after a collation step has raised, what the earlier steps and zones wrote is in
\* archives_dir: the logs of the zones collate_logs got through, the match file if
\* archive_match_file had returned, the recordings copied before the textures failed.
\* What the failing and the later steps would have written is absent or as it was before
\* the run.  This stays so through teardown, and the run ends with a non-zero status.
C19_PartialCollation ==
    (caller = "main" /\ LeftBody /\ CollationFailed) =>
        /\ \A z \in Assigned :
              IF z < LogsDone
              THEN is_file(fs, TeamLog(z)) /\ fs[TeamLog(z)].data = <<"log", ToStr(z)>>
              ELSE AsBefore(TeamLog(z))
        /\ IF CollationFailedAt("archive_match_recordings")
           THEN /\ is_file(fs, ArchivedMatchFile)
                /\ fs[ArchivedMatchFile].data =
                      <<"match", ToStr(args.match_num)>> \o match_data.teams
                      \o <<ToStr(args.duration), "scores">>
           ELSE AsBefore(ArchivedMatchFile)
        /\ IF CollationFailedAt("archive_match_recordings")
           THEN /\ Tree(fs, archives_dir \o <<"recordings", "textures">>) =
                      Tree(pre.archives, archives_dir \o <<"recordings", "textures">>)
                /\ pc = "finally" =>
                      \A p \in Children(fs, ARENA_ROOT \o <<"recordings">>) :
                          StartsWith(Name(p), "match-") =>
                              is_file(fs, archives_dir \o <<"recordings", Name(p)>>)
           ELSE Tree(fs, archives_dir \o <<"recordings">>) =
                   Tree(pre.archives, archives_dir \o <<"recordings">>)
        /\ pc = "done" => status # 0

\* a run ended non-zero after collate_logs failed at a later zone, with the log of zone 0
\* newly in the archives directory
C19_Witness ==
    /\ caller = "main" /\ pc = "done" /\ status = 1
    /\ CollationFailedAt("collate_logs")
    /\ LogsDone >= 1 /\ 0 \in Assigned
    /\ is_file(fs, TeamLog(0)) /\ ~exists(pre.archives, TeamLog(0))
    /\ ~exists(fs, ArchivedMatchFile)

\* archive_match_file raised after every log had been collated
C19_MatchFileFailed ==
    /\ caller = "main" /\ pc = "done" /\ CollationFailedAt("archive_match_file")
    /\ Assigned # {}
\* archive_match_recordings raised after a recording had been copied
C19_RecordingsFailed ==
    /\ caller = "main" /\ pc = "done" /\ CollationFailedAt("archive_match_recordings")
    /\ is_file(fs, archives_dir \o <<"recordings", "match-12.mp4">>)

====
